---- MODULE Spec2Model ----
(***************************************************************************)
(* flatten_tree: TreeFlattener.flatten walks a decision tree depth-first,  *)
(* accumulates per-variable constraints with add_simple_constraint, prunes *)
(* contradictory branches and yields one rule string per reachable leaf.   *)
(* The generator is modelled as a machine over its stack of suspended      *)
(* _dfs_collect_strategies frames; the consumer drives it with Pull.       *)
(***************************************************************************)
EXTENDS Integers, Sequences, FiniteSets, TLC

VARIABLES nodes, stack, out, mode, pulls, visited

vars == <<nodes, stack, out, mode, pulls, visited>>

\* The objects of the constraint stores, for the runs that look at
\* add_simple_constraint on its own: the dicts and sets that exist, the
\* stores the callers hold, and the last call made.
VARIABLES heap, live, call

svars == <<heap, live, call>>

(***************************************************************************)
(* Bounds of the model.                                                    *)
(***************************************************************************)
\* Largest number of atomic Condition objects in an input tree (a
\* single-condition node holds one, an OR-condition node holds two).
MaxConds == 3

\* Deepest stack of nested _dfs_collect_strategies generators before the
\* interpreter gives up on the recursion (only cyclic node tables get there).
MaxDepth == 5

(***************************************************************************)
(* Optional values: None is the empty tuple, a present value x is <<x>>.   *)
(***************************************************************************)
None == <<>>

Some(x) == <<x>>

(***************************************************************************)
(* Strings.  Values are Python strings; sorted() orders them by code       *)
(* point, character by character.                                          *)
(***************************************************************************)
Vars == {"a", "b"}

\* The values the conditions of the input trees mention, per variable.
CondValues == [a |-> {"10", "9"}, b |-> {"10"}]

\* The values a variable can take: one of them ("7") is mentioned by no tree.
Domain == {"10", "9", "7"}

\* Code points of the characters of the value strings.
Codes == [s \in Domain |->
            IF s = "10" THEN <<49, 48>> ELSE IF s = "9" THEN <<57>> ELSE <<55>>]

RECURSIVE SeqLess(_, _)
SeqLess(x, y) ==
    IF y = <<>> THEN FALSE
    ELSE IF x = <<>> THEN TRUE
    ELSE IF Head(x) # Head(y) THEN Head(x) < Head(y)
    ELSE SeqLess(Tail(x), Tail(y))

\* Python's str.__lt__.
StrLess(s, t) == SeqLess(Codes[s], Codes[t])

\* The members of a set of strings in descending order.
RECURSIVE sorted_descending(_)
sorted_descending(S) ==
    IF S = {} THEN <<>>
    ELSE LET m == CHOOSE x \in S : \A y \in S \ {x} : StrLess(y, x)
         IN  <<m>> \o sorted_descending(S \ {m})

\* sorted(ineq): the members of a set of strings in ascending order.
RECURSIVE sorted(_)
sorted(S) ==
    IF S = {} THEN <<>>
    ELSE LET m == CHOOSE x \in S : \A y \in S \ {x} : StrLess(x, y)
         IN  <<m>> \o sorted(S \ {m})

RECURSIVE Join(_, _)
\* sep.join(strs)
Join(strs, sep) ==
    IF strs = <<>> THEN ""
    ELSE IF Len(strs) = 1 THEN strs[1]
    ELSE strs[1] \o sep \o Join(Tail(strs), sep)

RECURSIVE Flat(_)
\* Concatenation of a sequence of sequences.
Flat(ss) == IF ss = <<>> THEN <<>> ELSE Head(ss) \o Flat(Tail(ss))

(***************************************************************************)
(* Data model.                                                             *)
(***************************************************************************)
Condition(variable, operator, value) ==
    [variable |-> variable, operator |-> operator, value |-> value]

OrCondition(left, right) == [left |-> left, right |-> right]

TreeNode(node_id, or_condition, single_condition, yes_branch, no_branch, leaf_value) ==
    [node_id |-> node_id, or_condition |-> or_condition,
     single_condition |-> single_condition, yes_branch |-> yes_branch,
     no_branch |-> no_branch, leaf_value |-> leaf_value]

(***************************************************************************)
(* Constraint store: a dict, in insertion order, from variable to          *)
(* (equality, inequalities).                                               *)
(***************************************************************************)
Entry(var, eq, ineq) == [var |-> var, eq |-> eq, ineq |-> ineq]

\* Position of var's entry in the dict, 0 when var is not a key.
IndexOf(constraints, var) ==
    IF \E i \in 1..Len(constraints) : constraints[i].var = var
    THEN CHOOSE i \in 1..Len(constraints) : constraints[i].var = var
    ELSE 0

\* add_simple_constraint without the test "if val in ineq": an equality is
\* accepted for a value the path has already forbidden.
add_forgets_forbidden(constraints, var, op, val) ==
    LET i == IndexOf(constraints, var) IN
    IF i # 0
    THEN LET eq == constraints[i].eq
             ineq == constraints[i].ineq
         IN  IF op = "="
             THEN IF eq = None
                  THEN Some([constraints EXCEPT ![i] = Entry(var, Some(val), ineq)])
                  ELSE IF eq # Some(val) THEN None ELSE Some(constraints)
             ELSE IF eq # None
                  THEN IF eq = Some(val) THEN None ELSE Some(constraints)
                  ELSE Some([constraints EXCEPT ![i] = Entry(var, None, ineq \cup {val})])
    ELSE IF op = "="
         THEN Some(Append(constraints, Entry(var, Some(val), {})))
         ELSE Some(Append(constraints, Entry(var, None, {val})))

\* add_simple_constraint without the test "if eq != val": a second equality
\* for another value is taken as if it changed nothing.
add_keeps_first_equality(constraints, var, op, val) ==
    LET i == IndexOf(constraints, var) IN
    IF i # 0
    THEN LET eq == constraints[i].eq
             ineq == constraints[i].ineq
         IN  IF op = "="
             THEN IF eq = None
                  THEN IF val \in ineq
                       THEN None
                       ELSE Some([constraints EXCEPT ![i] = Entry(var, Some(val), ineq)])
                  ELSE Some(constraints)
             ELSE IF eq # None
                  THEN IF eq = Some(val) THEN None ELSE Some(constraints)
                  ELSE Some([constraints EXCEPT ![i] = Entry(var, None, ineq \cup {val})])
    ELSE IF op = "="
         THEN Some(Append(constraints, Entry(var, Some(val), {})))
         ELSE Some(Append(constraints, Entry(var, None, {val})))

\* add_simple_constraint with "if eq is not None: return None": an
\* inequality on a variable that has a required value is always refused.
add_rejects_redundant(constraints, var, op, val) ==
    LET i == IndexOf(constraints, var) IN
    IF i # 0
    THEN LET eq == constraints[i].eq
             ineq == constraints[i].ineq
         IN  IF op = "="
             THEN IF eq = None
                  THEN IF val \in ineq
                       THEN None
                       ELSE Some([constraints EXCEPT ![i] = Entry(var, Some(val), ineq)])
                  ELSE IF eq # Some(val) THEN None ELSE Some(constraints)
             ELSE IF eq # None
                  THEN None
                  ELSE Some([constraints EXCEPT ![i] = Entry(var, None, ineq \cup {val})])
    ELSE IF op = "="
         THEN Some(Append(constraints, Entry(var, Some(val), {})))
         ELSE Some(Append(constraints, Entry(var, None, {val})))

\* add_simple_constraint: Some(new dict), or None on a contradiction.
add_simple_constraint(constraints, var, op, val) ==
    LET i == IndexOf(constraints, var) IN
    IF i # 0
    THEN LET eq == constraints[i].eq
             ineq == constraints[i].ineq
         IN  IF op = "="
             THEN IF eq = None
                  THEN IF val \in ineq
                       THEN None
                       ELSE Some([constraints EXCEPT ![i] = Entry(var, Some(val), ineq)])
                  ELSE IF eq # Some(val) THEN None ELSE Some(constraints)
             ELSE IF op = "!="
             THEN IF eq # None
                  THEN IF eq = Some(val) THEN None ELSE Some(constraints)
                  ELSE Some([constraints EXCEPT ![i] = Entry(var, None, ineq \cup {val})])
             ELSE Some(constraints)
    ELSE IF op = "="
         THEN Some(Append(constraints, Entry(var, Some(val), {})))
         ELSE Some(Append(constraints, Entry(var, None, {val})))

\* A negation that leaves the operator as it is.
NegateKeeps(op) == op

\* "!=" if operator == "=" else "="
Negate(op) == IF op = "=" THEN "!=" ELSE "="

(***************************************************************************)
(* Rendering at a leaf.                                                    *)
(***************************************************************************)
\* The terms one dict entry contributes to cond_list.
EntryTerms(e) ==
    IF e.eq # None
    THEN <<Condition(e.var, "=", e.eq[1])>>
    ELSE LET s == sorted(e.ineq)
         IN  [k \in 1..Len(s) |-> Condition(e.var, "!=", s[k])]

\* cond_list before extra_conditions is appended.
CondList(constraints) ==
    Flat([k \in 1..Len(constraints) |-> EntryTerms(constraints[k])])

\* f"{var}={eq}" and f"{var}!={disallowed}"
TermText(t) == t.variable \o t.operator \o t.value

\* f"{node.leaf_value}" for the float leaf_value n.0
LeafText(leaf_value) == ToString(leaf_value) \o ".0"

\* The yielded string.
RuleText(terms, extra_conditions, leaf_value) ==
    LET cond_str == Join([k \in 1..Len(terms) |-> TermText(terms[k])]
                           \o extra_conditions, " & ")
    IN  IF cond_str # "" THEN cond_str \o " : " \o LeafText(leaf_value)
        ELSE ": " \o LeafText(leaf_value)

\* What a leaf yields: the string, with the values it was built from.
Rule(node, constraints, extra_conditions) ==
    [text  |-> RuleText(CondList(constraints), extra_conditions, node.leaf_value[1]),
     terms |-> CondList(constraints),
     extra |-> extra_conditions,
     leaf  |-> node.leaf_value[1],
     node_id |-> node.node_id]

(***************************************************************************)
(* Input node tables.  Node ids are handed out in depth-first order from   *)
(* the root id 0; the leaf with id n holds the leaf_value n.0.             *)
(***************************************************************************)
Ops == {"=", "!="}

\* The operators the conditions of the input trees use, per variable ("b"
\* gets its inequalities from the NO branches).
CondOps == [a |-> Ops, b |-> {"="}]

Conds == UNION {{Condition(v, o, x) : o \in CondOps[v], x \in CondValues[v]} : v \in Vars}

OrConds == {OrCondition(l, r) : l \in Conds, r \in Conds}

LeafNode(id) == TreeNode(id, None, None, None, None, Some(id))

SingleNode(id, c, y, n) == TreeNode(id, None, Some(c), Some(y), Some(n), None)

OrNode(id, oc, y, n) == TreeNode(id, Some(oc), None, Some(y), Some(n), None)

\* The number of atomic conditions a decision node of kind k holds.
Weight(k) == IF k = "single" THEN 1 ELSE 2

\* The shapes of the trees rooted at id that hold at most w atomic
\* conditions: kind gives each node's variant, yes and no its children, next
\* is the first unused id, rest the number of conditions still allowed.
RECURSIVE Shapes(_, _)
Shapes(id, w) ==
    {[kind |-> id :> "leaf", yes |-> id :> id, no |-> id :> id,
      next |-> id + 1, rest |-> w]}
    \cup
    UNION {UNION {UNION {{[kind |-> (id :> k) @@ Y.kind @@ N.kind,
                           yes  |-> (id :> id + 1) @@ Y.yes @@ N.yes,
                           no   |-> (id :> Y.next) @@ Y.no @@ N.no,
                           next |-> N.next, rest |-> N.rest]}
                         : N \in Shapes(Y.next, Y.rest)}
                  : Y \in Shapes(id + 1, w - Weight(k))}
           : k \in {x \in {"single", "or"} : Weight(x) <= w}}

Ids(sh, k) == {id \in DOMAIN sh.kind : sh.kind[id] = k}

\* The node table of shape sh whose single-condition nodes hold the
\* conditions f and whose OR-condition nodes hold the conditions g.
Table(sh, f, g) ==
    [id \in DOMAIN sh.kind |->
        IF sh.kind[id] = "leaf" THEN LeafNode(id)
        ELSE IF sh.kind[id] = "single" THEN SingleNode(id, f[id], sh.yes[id], sh.no[id])
        ELSE OrNode(id, g[id], sh.yes[id], sh.no[id])]

\* A second OR condition, for a node that wrongly carries two conditions.
ExtraOr == OrCondition(Condition("b", "=", "10"), Condition("a", "=", "9"))

\* The ways to damage one node of a table of shape sh: a branch unset, a
\* branch naming an id missing from the table, a branch leading back to the
\* root, or a second variant set on the node.
FaultSites(sh) ==
    {<<d, w, b>> : d \in DOMAIN sh.kind \ Ids(sh, "leaf"),
                   w \in {"yes", "no"},
                   b \in {None, Some(sh.next), Some(0)}}
    \cup {<<d, "leaf", Some(d)>> : d \in DOMAIN sh.kind \ Ids(sh, "leaf")}
    \cup {<<d, "or", Some(ExtraOr)>> : d \in Ids(sh, "single")}
    \cup {<<d, "single", Some(ExtraOr.left)>> : d \in DOMAIN sh.kind \ Ids(sh, "single")}

Damage(tab, site) ==
    LET d == site[1]
        b == site[3]
    IN  IF site[2] = "yes" THEN [tab EXCEPT ![d].yes_branch = b]
        ELSE IF site[2] = "no" THEN [tab EXCEPT ![d].no_branch = b]
        ELSE IF site[2] = "leaf" THEN [tab EXCEPT ![d].leaf_value = b]
        ELSE IF site[2] = "or" THEN [tab EXCEPT ![d].or_condition = b]
        ELSE [tab EXCEPT ![d].single_condition = b]

\* The conditions of the trees that get damaged: those on the value "10".
DamagedConds == {c \in Conds : c.value = "10"}

DamagedOrConds == {OrCondition(l, r) : l \in DamagedConds, r \in DamagedConds}

\* The node tables flatten is run on: every tree within the bound, and
\* every tree of one condition less over the value "10" with one node damaged.
IsInput(tab) ==
    \/ \E sh \in Shapes(0, MaxConds) :
         \E f \in [Ids(sh, "single") -> Conds], g \in [Ids(sh, "or") -> OrConds] :
            tab = Table(sh, f, g)
    \/ \E sh \in Shapes(0, MaxConds - 1) :
         \E f \in [Ids(sh, "single") -> DamagedConds],
            g \in [Ids(sh, "or") -> DamagedOrConds] :
            \E site \in FaultSites(sh) :
               tab = Damage(Table(sh, f, g), site)

(***************************************************************************)
(* The stores _dfs_collect_strategies builds for the branches of a node:   *)
(* Some(store), or None when the branch is impossible.                     *)
(***************************************************************************)
Add(constraints, c) ==
    add_simple_constraint(constraints, c.variable, c.operator, c.value)

AddNegated(constraints, c) ==
    add_simple_constraint(constraints, c.variable, Negate(c.operator), c.value)

\* The alternatives of an OR node's YES branch tried right part first.
OrYesRightFirst(or_cond) == <<or_cond.right, or_cond.left>>

\* The alternatives of an OR node's YES branch in the order they are tried:
\* "Option 1: assume left condition is true", "Option 2: assume right
\* condition is true".
OrYesOrder(or_cond) == <<or_cond.left, or_cond.right>>

\* constraints_left
OrLeftStore(constraints, or_cond) == Add(constraints, OrYesOrder(or_cond)[1])

\* The right alternative added on top of the left one.
OrRightAfterLeft(constraints, or_cond) ==
    IF Add(constraints, or_cond.left) = None THEN Add(constraints, or_cond.right)
    ELSE Add(Add(constraints, or_cond.left)[1], or_cond.right)

\* constraints_right
OrRightStore(constraints, or_cond) == Add(constraints, OrYesOrder(or_cond)[2])

\* The NO branch of an OR node with only the left part negated.
OrNoLeftOnly(constraints, or_cond) == AddNegated(constraints, or_cond.left)

\* new_constraints of the NO branch of an OR node: both parts negated,
\* the right one only if the left one did not make the branch impossible.
OrNoStore(constraints, or_cond) ==
    LET first == AddNegated(constraints, or_cond.left)
    IN  IF first = None THEN None ELSE AddNegated(first[1], or_cond.right)

\* new_constraints_yes
SingleYesStore(constraints, cond) == Add(constraints, cond)

\* new_constraints_no
SingleNoStore(constraints, cond) == AddNegated(constraints, cond)

(***************************************************************************)
(* The generator machine.                                                  *)
(***************************************************************************)
\* root_id: int = 0
RootId == 0

\* One activation of _dfs_collect_strategies; pc is where it resumes.
Frame(node_id, constraints, extra_conditions, pc) ==
    [node_id |-> node_id, constraints |-> constraints,
     extra_conditions |-> extra_conditions, pc |-> pc]

top == stack[Len(stack)]

Front(st) == SubSeq(st, 1, Len(st) - 1)

SetPc(st, pc) == [st EXCEPT ![Len(st)].pc = pc]

\* Which branch of the code a node takes: the order of the tests at
\* "if node.leaf_value is not None", "if node.or_condition is not None",
\* "elif node.single_condition is not None".
Variant(node) ==
    IF node.leaf_value # None THEN "leaf"
    ELSE IF node.or_condition # None THEN "or"
    ELSE IF node.single_condition # None THEN "single"
    ELSE "none"

\* A generator that has run off its end returns into its caller's
\* "yield from"; a caller with nothing left to run returns in turn.
RECURSIVE Unwind(_)
Unwind(st) ==
    IF st = <<>> THEN <<>>
    ELSE IF st[Len(st)].pc = "end" THEN Unwind(Front(st))
    ELSE st

\* A leaf that hands its rule to a list the caller gets at the end: the
\* traversal goes on without waiting for the consumer.
YieldEager(rule) ==
    /\ out' = Append(out, rule)
    /\ mode' = "running"
    /\ stack' = SetPc(stack, "yielded")

\* yield: the rule goes to the consumer and the generator is suspended
\* until the next pull.
Yield(rule) ==
    /\ out' = Append(out, rule)
    /\ mode' = "suspended"
    /\ stack' = SetPc(stack, "yielded")

\* The top activation returns.
Return ==
    /\ stack' = Unwind(Front(stack))
    /\ mode' = IF Unwind(Front(stack)) = <<>> THEN "done" ELSE "running"

\* yield from self._dfs_collect_strategies(child, constraints, extra.copy()),
\* the caller resuming at pc afterwards.
Recurse(pc, child, constraints) ==
    IF Len(stack) >= MaxDepth
    THEN /\ mode' = "failed"
         /\ stack' = stack
    ELSE /\ mode' = "running"
         /\ stack' = Append(SetPc(stack, pc),
                            Frame(child, constraints, top.extra_conditions, "start"))

Init ==
    /\ IsInput(nodes)
    /\ stack = <<>>
    /\ out = <<>>
    /\ mode = "created"
    /\ pulls = 0
    /\ visited = <<>>
    /\ heap = [dicts |-> <<>>, sets |-> <<>>]
    /\ live = <<>>
    /\ call = <<>>

\* The consumer calls next() on the generator flatten(root_id) returned.
Pull ==
    /\ mode \in {"created", "suspended"}
    /\ mode' = "running"
    /\ pulls' = pulls + 1
    /\ stack' = IF mode = "created"
                THEN <<Frame(RootId, <<>>, <<>>, "start")>>
                ELSE stack
    /\ UNCHANGED <<nodes, out, visited>>
    /\ UNCHANGED svars

\* node = self.nodes[node_id], and the dispatch on the node's variant; a
\* leaf builds its rule and yields it.
Enter ==
    /\ mode = "running"
    /\ top.pc = "start"
    /\ visited' = Append(visited, top.node_id)
    /\ pulls' = pulls
    /\ nodes' = nodes
    /\ IF top.node_id \notin DOMAIN nodes
       THEN /\ mode' = "failed"
            /\ UNCHANGED <<stack, out>>
       ELSE LET node == nodes[top.node_id] IN
            CASE Variant(node) = "leaf" ->
                   Yield(Rule(node, top.constraints, top.extra_conditions))
              [] Variant(node) = "or" ->
                   /\ stack' = SetPc(stack, "or_left")
                   /\ UNCHANGED <<out, mode>>
              [] Variant(node) = "single" ->
                   /\ stack' = SetPc(stack, "single_yes")
                   /\ UNCHANGED <<out, mode>>
              [] OTHER ->
                   /\ Return
                   /\ out' = out
    /\ UNCHANGED svars

\* The return after the yield of a leaf.
LeafReturn ==
    /\ mode = "running"
    /\ top.pc = "yielded"
    /\ Return
    /\ UNCHANGED <<nodes, out, pulls, visited>>
    /\ UNCHANGED svars

\* OR node, branch YES, option 1: assume the left condition is true.
OrLeft ==
    /\ mode = "running"
    /\ top.pc = "or_left"
    /\ LET node == nodes[top.node_id]
           constraints_left == OrLeftStore(top.constraints, node.or_condition[1])
       IN  IF node.yes_branch = None
           THEN /\ stack' = SetPc(stack, "or_no")
                /\ mode' = mode
           ELSE IF constraints_left # None
           THEN Recurse("or_right", node.yes_branch[1], constraints_left[1])
           ELSE /\ stack' = SetPc(stack, "or_right")
                /\ mode' = mode
    /\ UNCHANGED <<nodes, out, pulls, visited>>
    /\ UNCHANGED svars

\* OR node, branch YES, option 2: assume the right condition is true.
OrRight ==
    /\ mode = "running"
    /\ top.pc = "or_right"
    /\ LET node == nodes[top.node_id]
           constraints_right == OrRightStore(top.constraints, node.or_condition[1])
       IN  IF constraints_right # None
           THEN Recurse("or_no", node.yes_branch[1], constraints_right[1])
           ELSE /\ stack' = SetPc(stack, "or_no")
                /\ mode' = mode
    /\ UNCHANGED <<nodes, out, pulls, visited>>
    /\ UNCHANGED svars

\* OR node, branch NO: both parts are false.
OrNo ==
    /\ mode = "running"
    /\ top.pc = "or_no"
    /\ LET node == nodes[top.node_id]
           new_constraints == OrNoStore(top.constraints, node.or_condition[1])
       IN  IF node.no_branch = None THEN Return
           ELSE IF new_constraints = None THEN Return
           ELSE Recurse("end", node.no_branch[1], new_constraints[1])
    /\ UNCHANGED <<nodes, out, pulls, visited>>
    /\ UNCHANGED svars

\* Single-condition node, YES branch: add the condition as is.
SingleYes ==
    /\ mode = "running"
    /\ top.pc = "single_yes"
    /\ LET node == nodes[top.node_id]
           cond == node.single_condition[1]
           new_constraints_yes == SingleYesStore(top.constraints, cond)
       IN  IF new_constraints_yes # None /\ node.yes_branch # None
           THEN Recurse("single_no", node.yes_branch[1], new_constraints_yes[1])
           ELSE /\ stack' = SetPc(stack, "single_no")
                /\ mode' = mode
    /\ UNCHANGED <<nodes, out, pulls, visited>>
    /\ UNCHANGED svars

\* Single-condition node, NO branch: add the negation of the condition.
SingleNo ==
    /\ mode = "running"
    /\ top.pc = "single_no"
    /\ LET node == nodes[top.node_id]
           cond == node.single_condition[1]
           new_constraints_no == SingleNoStore(top.constraints, cond)
       IN  IF new_constraints_no # None /\ node.no_branch # None
           THEN Recurse("end", node.no_branch[1], new_constraints_no[1])
           ELSE Return
    /\ UNCHANGED <<nodes, out, pulls, visited>>
    /\ UNCHANGED svars

Next ==
    \/ Pull
    \/ Enter
    \/ LeafReturn
    \/ OrLeft
    \/ OrRight
    \/ OrNo
    \/ SingleYes
    \/ SingleNo

Spec == Init /\ [][Next]_vars

(***************************************************************************)
(* What rules and trees mean.                                              *)
(***************************************************************************)
\* One value for every variable.
Assignments == [Vars -> Domain]

\* The assignment makes the condition true.
Holds(assign, c) ==
    IF c.operator = "=" THEN assign[c.variable] = c.value
    ELSE assign[c.variable] # c.value

\* The condition that is true exactly when c is false.
Opposite(c) == Condition(c.variable, IF c.operator = "=" THEN "!=" ELSE "=", c.value)

\* The assignment satisfies the conjunction of the rule.
Satisfies(assign, rule) ==
    /\ rule.extra = <<>>
    /\ \A k \in 1..Len(rule.terms) : Holds(assign, rule.terms[k])

Satisfied(assign) == {k \in 1..Len(out) : Satisfies(assign, out[k])}

VariantsSet(node) ==
    Cardinality({x \in {"leaf", "or", "single"} :
        \/ x = "leaf" /\ node.leaf_value # None
        \/ x = "or" /\ node.or_condition # None
        \/ x = "single" /\ node.single_condition # None})

\* A node that is not a leaf.
IsDecision(node) == node.leaf_value = None

Branches(node) == {node.yes_branch, node.no_branch} \ {None}

\* A finite acyclic tree: every node is one variant, and every branch that
\* is set names a node of the table further down (ids grow downwards).
IsTree(tab) ==
    \A id \in DOMAIN tab :
        /\ VariantsSet(tab[id]) = 1
        /\ IsDecision(tab[id]) =>
             \A b \in Branches(tab[id]) : b[1] \in DOMAIN tab /\ b[1] > id

\* A tree whose decision nodes all have both branches.
IsComplete(tab) ==
    /\ IsTree(tab)
    /\ \A id \in DOMAIN tab :
         IsDecision(tab[id]) => tab[id].yes_branch # None /\ tab[id].no_branch # None

HasOr(tab) == \E id \in DOMAIN tab : tab[id].or_condition # None

\* The test of a decision node is true under the assignment.
TestHolds(assign, node) ==
    IF node.or_condition # None
    THEN \/ Holds(assign, node.or_condition[1].left)
         \/ Holds(assign, node.or_condition[1].right)
    ELSE Holds(assign, node.single_condition[1])

\* The id of the leaf that evaluating the tree from node id reaches.
RECURSIVE Eval(_, _, _)
Eval(tab, assign, id) ==
    IF ~IsDecision(tab[id]) THEN id
    ELSE IF TestHolds(assign, tab[id]) THEN Eval(tab, assign, tab[id].yes_branch[1])
    ELSE Eval(tab, assign, tab[id].no_branch[1])

(***************************************************************************)
(* C1.  Equivalence of flatten with the tree: once flatten has run to the  *)
(* end on a complete tree, every assignment satisfies at least one emitted *)
(* rule, and every emitted rule it satisfies carries the value of the leaf *)
(* that evaluating the tree on the assignment reaches.                     *)
(***************************************************************************)
C1_Equivalence ==
    (mode = "done" /\ IsComplete(nodes)) =>
        \A assign \in Assignments :
            /\ Satisfied(assign) # {}
            /\ \A k \in Satisfied(assign) :
                 out[k].leaf = nodes[Eval(nodes, assign, RootId)].leaf_value[1]

\* A finished run on a complete tree with an OR node where a branch was
\* pruned and some assignment satisfies two rules.
C1_Witness ==
    /\ mode = "done"
    /\ IsComplete(nodes)
    /\ HasOr(nodes)
    /\ Len(out) >= 3
    /\ \E assign \in Assignments : Cardinality(Satisfied(assign)) = 2
    /\ \E id \in DOMAIN nodes : \A k \in 1..Len(out) : out[k].node_id # id

Admits(constraints) ==
    {assign \in Assignments :
        \A k \in 1..Len(constraints) :
            /\ constraints[k].eq # None => assign[constraints[k].var] = constraints[k].eq[1]
            /\ assign[constraints[k].var] \notin constraints[k].ineq}

Where(c) == {assign \in Assignments : Holds(assign, c)}

\* The root is an OR node whose two branches are leaves.
OrRootOverLeaves ==
    /\ IsComplete(nodes)
    /\ nodes[RootId].or_condition # None
    /\ ~IsDecision(nodes[nodes[RootId].yes_branch[1]])
    /\ ~IsDecision(nodes[nodes[RootId].no_branch[1]])

RootLeft == nodes[RootId].or_condition[1].left

RootRight == nodes[RootId].or_condition[1].right

YesLeafText == LeafText(nodes[nodes[RootId].yes_branch[1]].leaf_value[1])

NoLeafText == LeafText(nodes[nodes[RootId].no_branch[1]].leaf_value[1])

C3_YesStep ==
    (/\ IsTree(nodes)
     /\ mode = "running"
     /\ top.pc \in {"or_left", "or_right"}
     /\ nodes[top.node_id].yes_branch # None)
    => LET or_cond == nodes[top.node_id].or_condition[1]
           disjunct == IF top.pc = "or_left" THEN or_cond.left ELSE or_cond.right
           meaning == Admits(top.constraints) \cap Where(disjunct)
           child == stack'[Len(stack')]
       IN  IF meaning = {}
           THEN Len(stack') = Len(stack)
           ELSE /\ Len(stack') = Len(stack) + 1
                /\ child.node_id = nodes[top.node_id].yes_branch[1]
                /\ child.pc = "start"
                /\ child.extra_conditions = top.extra_conditions
                /\ Admits(child.constraints) = meaning
                /\ stack'[Len(stack)].constraints = top.constraints

C3_NoOrTerm ==
    \A k \in 1..Len(out) :
        /\ out[k].extra = <<>>
        /\ \A j \in 1..Len(out[k].terms) : out[k].terms[j].operator \in {"=", "!="}
        /\ out[k].text = RuleText(out[k].terms, <<>>, out[k].leaf)

C3_ThreeRules ==
    (mode = "done" /\ OrRootOverLeaves /\ RootLeft.variable # RootRight.variable)
    => [k \in 1..Len(out) |-> out[k].text] =
         << TermText(RootLeft) \o " : " \o YesLeafText,
            TermText(RootRight) \o " : " \o YesLeafText,
            TermText(Opposite(RootLeft)) \o " & " \o TermText(Opposite(RootRight))
               \o " : " \o NoLeafText >>

Consistent(facts) ==
    \E assign \in Assignments : \A k \in 1..Len(facts) : Holds(assign, facts[k])

\* The alternatives of a decision node in the order YES before NO and, at
\* an OR node, left disjunct before right disjunct before NO: the facts the
\* alternative adds and the branch it leads to.
Alternatives(node) ==
    IF node.or_condition # None
    THEN LET oc == node.or_condition[1]
         IN  << [facts |-> <<oc.left>>, to |-> node.yes_branch],
                [facts |-> <<oc.right>>, to |-> node.yes_branch],
                [facts |-> <<Opposite(oc.left), Opposite(oc.right)>>, to |-> node.no_branch] >>
    ELSE LET c == node.single_condition[1]
         IN  << [facts |-> <<c>>, to |-> node.yes_branch],
                [facts |-> <<Opposite(c)>>, to |-> node.no_branch] >>

\* The root-to-leaf paths below node id, reached with the given facts, on
\* which the facts stay consistent, in depth-first order.
RECURSIVE SurvivingPaths(_, _, _)
SurvivingPaths(tab, id, facts) ==
    IF ~IsDecision(tab[id]) THEN << [facts |-> facts, leaf |-> id] >>
    ELSE LET alts == Alternatives(tab[id])
         IN  Flat([k \in 1..Len(alts) |->
                    IF alts[k].to # None /\ Consistent(facts \o alts[k].facts)
                    THEN SurvivingPaths(tab, alts[k].to[1], facts \o alts[k].facts)
                    ELSE <<>>])

\* The nodes entered below and including node id, in depth-first order, when
\* no child is entered on inconsistent facts.
RECURSIVE Entered(_, _, _)
Entered(tab, id, facts) ==
    IF ~IsDecision(tab[id]) THEN <<id>>
    ELSE LET alts == Alternatives(tab[id])
         IN  <<id>> \o
             Flat([k \in 1..Len(alts) |->
                    IF alts[k].to # None /\ Consistent(facts \o alts[k].facts)
                    THEN Entered(tab, alts[k].to[1], facts \o alts[k].facts)
                    ELSE <<>>])

Count(seq, x) == Cardinality({k \in 1..Len(seq) : seq[k] = x})

C7_EmissionOrder ==
    (mode \in {"suspended", "done"} /\ IsTree(nodes)) =>
        LET paths == SurvivingPaths(nodes, RootId, <<>>)
        IN  /\ Len(out) <= Len(paths)
            /\ mode = "done" => Len(out) = Len(paths)
            /\ \A k \in 1..Len(out) :
                 /\ out[k].node_id = paths[k].leaf
                 /\ {assign \in Assignments : Satisfies(assign, out[k])}
                      = {assign \in Assignments :
                           \A j \in 1..Len(paths[k].facts) : Holds(assign, paths[k].facts[j])}

\* A finished run that emitted at least four rules on a tree with an OR
\* node above a single-condition node.
C7_Witness ==
    /\ mode = "done"
    /\ IsComplete(nodes)
    /\ Len(out) >= 4
    /\ nodes[RootId].or_condition # None
    /\ nodes[nodes[RootId].yes_branch[1]].single_condition # None
    /\ out[1].node_id # out[2].node_id

(***************************************************************************)
(* The path of the activation on top of the stack, read off the branches   *)
(* the activations below it are in.                                        *)
(***************************************************************************)
\* The facts of the branch the activation is in.
BranchFacts(frame) ==
    LET node == nodes[frame.node_id] IN
    IF node.or_condition # None
    THEN LET oc == node.or_condition[1]
         IN  IF frame.pc = "or_right" THEN <<oc.left>>
             ELSE IF frame.pc = "or_no" THEN <<oc.right>>
             ELSE <<Opposite(oc.left), Opposite(oc.right)>>
    ELSE LET c == node.single_condition[1]
         IN  IF frame.pc = "single_no" THEN <<c>> ELSE <<Opposite(c)>>

\* The facts of the path from the root to the activation on top.
PathFacts == Flat([i \in 1..(Len(stack) - 1) |-> BranchFacts(stack[i])])

\* A leaf has just yielded out[Len(out)].
JustYielded == mode = "suspended" /\ IsTree(nodes)

TermsOf(rule, x) == SelectSeq(rule.terms, LAMBDA t : t.variable = x)

(***************************************************************************)
(* C6.  Redundant inequality is a no-op: for every store a node is entered *)
(* with in which a variable has a required value v', adding var != v for   *)
(* any other v succeeds and leaves the rendered terms as they were, var=v'  *)
(* among them and var!=v not; and a rule emitted below the YES branch of a *)
(* node [var!=v] reached with var=v' required holds var=v' and no var!=v.  *)
(***************************************************************************)
C6_RedundantInequality ==
    /\ (mode = "running" /\ top.pc = "start" /\ IsTree(nodes)) =>
         \A k \in 1..Len(top.constraints) :
           LET s == top.constraints
               e == s[k]
           IN  e.eq # None =>
                 \A v \in Domain \ {e.eq[1]} :
                    LET r == add_simple_constraint(s, e.var, "!=", v)
                    IN  /\ r # None
                        /\ CondList(r[1]) = CondList(s)
                        /\ \E j \in 1..Len(CondList(r[1])) :
                              CondList(r[1])[j] = Condition(e.var, "=", e.eq[1])
                        /\ \A j \in 1..Len(CondList(r[1])) :
                              CondList(r[1])[j] # Condition(e.var, "!=", v)
    /\ JustYielded =>
           \A i \in 1..(Len(stack) - 1) :
              LET node == nodes[stack[i].node_id]
                  s == stack[i].constraints
              IN  (/\ node.single_condition # None
                   /\ node.single_condition[1].operator = "!="
                   /\ stack[i].pc = "single_no"
                   /\ IndexOf(s, node.single_condition[1].variable) # 0
                   /\ s[IndexOf(s, node.single_condition[1].variable)].eq # None)
                  => LET c == node.single_condition[1]
                         required == s[IndexOf(s, c.variable)].eq[1]
                     IN  TermsOf(out[Len(out)], c.variable)
                           = <<Condition(c.variable, "=", required)>>

\* A rule has just been emitted below the YES branch of a node [var!=v]
\* that was reached with another value required for var.
C6_Witness ==
    /\ JustYielded
    /\ \E i \in 1..(Len(stack) - 1) :
          LET node == nodes[stack[i].node_id]
              s == stack[i].constraints
          IN  /\ node.single_condition # None
              /\ node.single_condition[1].operator = "!="
              /\ stack[i].pc = "single_no"
              /\ IndexOf(s, node.single_condition[1].variable) # 0
              /\ s[IndexOf(s, node.single_condition[1].variable)].eq
                   \notin {None, Some(node.single_condition[1].value)}

(***************************************************************************)
(* C8.  Laziness: while the consumer has pulled once and a rule has been   *)
(* emitted, the generator is suspended with that one rule, it has not      *)
(* failed, every node it looked up is in the table and the last one is the *)
(* leaf of the rule; on a tree these lookups are the depth-first prefix    *)
(* ending at that leaf.                                                    *)
(***************************************************************************)
\* The part of a sequence up to the first occurrence of x.
UpTo(seq, x) ==
    SubSeq(seq, 1, CHOOSE k \in 1..Len(seq) :
                      seq[k] = x /\ \A j \in 1..(k - 1) : seq[j] # x)

C8_Laziness ==
    (pulls = 1 /\ out # <<>>) =>
        /\ mode = "suspended"
        /\ Len(out) = 1
        /\ visited[Len(visited)] = out[1].node_id
        /\ \A k \in 1..Len(visited) : visited[k] \in DOMAIN nodes
        /\ IsTree(nodes) =>
             visited = UpTo(Entered(nodes, RootId, <<>>), out[1].node_id)

\* The first pull has returned a rule while a NO branch that is still to
\* be taken names an id missing from the table.
C8_Witness ==
    /\ pulls = 1
    /\ mode = "suspended"
    /\ Len(out) = 1
    /\ \E i \in 1..(Len(stack) - 1) :
          LET node == nodes[stack[i].node_id]
          IN  /\ VariantsSet(node) = 1
              /\ stack[i].pc = "single_no"
              /\ node.no_branch # None
              /\ node.no_branch[1] \notin DOMAIN nodes
              /\ SingleNoStore(stack[i].constraints, node.single_condition[1]) # None

(***************************************************************************)
(* C9.  Malformed-tree fault, as claimed: once the traversal has reached a *)
(* node that sets more than one of leaf_value, single_condition and        *)
(* or_condition, the call has failed: no rule is emitted for such a node   *)
(* and no activation goes on into its branches.                            *)
(***************************************************************************)
C9_MalformedFails ==
    /\ \A k \in 1..Len(out) : VariantsSet(nodes[out[k].node_id]) <= 1
    /\ \A i \in 1..Len(stack) :
         (/\ stack[i].pc # "start"
          /\ stack[i].node_id \in DOMAIN nodes
          /\ VariantsSet(nodes[stack[i].node_id]) > 1)
         => mode = "failed"

(***************************************************************************)
(* C10.  Rendering order at a leaf: the terms of the rule just emitted are *)
(* grouped by variable in the order in which the path first constrained    *)
(* the variables; a variable the path requires a value for has the one     *)
(* term var=value; any other variable of the path has one term var!=v per  *)
(* value the path forbids, in ascending string order of v.                 *)
(***************************************************************************)
FirstFact(x) ==
    CHOOSE k \in 1..Len(PathFacts) :
        PathFacts[k].variable = x /\ \A j \in 1..(k - 1) : PathFacts[j].variable # x

ValuesOnPath(x, op) ==
    {PathFacts[k].value : k \in {j \in 1..Len(PathFacts) :
                                    PathFacts[j].variable = x /\ PathFacts[j].operator = op}}

C10_RenderingOrder ==
    JustYielded =>
        LET rule == out[Len(out)]
            constrained == {PathFacts[k].variable : k \in 1..Len(PathFacts)}
        IN  /\ {rule.terms[k].variable : k \in 1..Len(rule.terms)} = constrained
            /\ \A i, j \in 1..Len(rule.terms) :
                 i < j => FirstFact(rule.terms[i].variable) <= FirstFact(rule.terms[j].variable)
            /\ \A x \in constrained :
                 LET ts == TermsOf(rule, x)
                 IN  IF ValuesOnPath(x, "=") # {}
                     THEN \E v \in ValuesOnPath(x, "=") : ts = <<Condition(x, "=", v)>>
                     ELSE /\ {ts[k] : k \in 1..Len(ts)}
                               = {Condition(x, "!=", v) : v \in ValuesOnPath(x, "!=")}
                          /\ \A k \in 1..(Len(ts) - 1) : StrLess(ts[k].value, ts[k + 1].value)

\* A rule has just been emitted on a path that forbade a value for one
\* variable, then constrained a second variable, then forbade another value
\* for the first: three terms, two variables.
C10_Witness ==
    /\ JustYielded
    /\ Len(out[Len(out)].terms) = 3
    /\ \E x \in Vars : Len(TermsOf(out[Len(out)], x)) = 2
    /\ PathFacts[1].variable = PathFacts[3].variable
    /\ PathFacts[1].variable # PathFacts[2].variable

(***************************************************************************)
(* Constraint stores as Python objects.  A dict lives at an address and    *)
(* holds, in insertion order, one item per variable: the tuple             *)
(* (equality, inequalities) whose second part is the address of a set.     *)
(* Two dicts that hold the same set address share that set.                *)
(***************************************************************************)
\* Deepest chain of stores in the runs on add_simple_constraint alone: the
\* store flatten starts from and the ones derived from it branch by branch.
MaxStores == 3

\* The values the calls are made with.
CallValues == {"10", "9"}

\* The smallest address not in use.
Fresh(used) ==
    CHOOSE a \in 1..(Cardinality(used) + 1) :
        a \notin used /\ \A b \in 1..(a - 1) : b \in used

\* set(v[1]) when it shares: the tuple of the copy keeps the set of the
\* original (what dict(constraints) would give).
SharedSets(h, items) == [heap |-> h, items |-> items]

\* (v[0], set(v[1])) for every item: each tuple of the copy gets a new set
\* with the members of the original.
RECURSIVE CopiedSets(_, _)
CopiedSets(h, items) ==
    IF items = <<>> THEN [heap |-> h, items |-> <<>>]
    ELSE LET a == Fresh(DOMAIN h.sets)
             h1 == [h EXCEPT !.sets = (a :> h.sets[Head(items).ineq]) @@ @]
             rest == CopiedSets(h1, Tail(items))
         IN  [heap |-> rest.heap,
              items |-> <<Entry(Head(items).var, Head(items).eq, a)>> \o rest.items]

\* new_constraints = {k: (v[0], set(v[1])) for k, v in constraints.items()}
DeepCopy(h, constraints) ==
    LET c == CopiedSets(h, h.dicts[constraints])
        new_constraints == Fresh(DOMAIN h.dicts)
    IN  [heap |-> [c.heap EXCEPT !.dicts = (new_constraints :> c.items) @@ @],
         new |-> new_constraints]

\* constraints.copy(): a new dict with the same tuples, so the same sets.
DictCopy(h, constraints) ==
    [heap |-> [h EXCEPT !.dicts = (Fresh(DOMAIN h.dicts) :> h.dicts[constraints]) @@ @],
     new |-> Fresh(DOMAIN h.dicts)]

\* new_constraints[var] = (eq, ineq), var being the key of item i (a new
\* key when i is one past the last item).
SetItem(h, d, i, var, eq, ineq) ==
    IF i <= Len(h.dicts[d])
    THEN [h EXCEPT !.dicts[d][i] = Entry(var, eq, ineq)]
    ELSE [h EXCEPT !.dicts[d] = Append(@, Entry(var, eq, ineq))]

\* "val in ineq" answered with False whatever the set holds.
NeverIn(h, ineq, val) == FALSE

\* val in ineq
In(h, ineq, val) == val \in h.sets[ineq]

\* .add(val) that leaves the set as it was.
SetAddNothing(h, ineq, val) == h

\* new_constraints[var][1].add(val)
SetAdd(h, ineq, val) == [h EXCEPT !.sets[ineq] = @ \cup {val}]

\* set() and {val}: a new set object.
NewSet(h, members) == [h EXCEPT !.sets = (Fresh(DOMAIN h.sets) :> members) @@ @]

Returned(h, result) == [heap |-> h, result |-> result]

\* add_simple_constraint on the objects: constraints is the address of the
\* caller's dict; the result is None or the address of the dict returned.
add_simple_constraint_on(h, constraints, var, op, val) ==
    LET c == DeepCopy(h, constraints)
        h1 == c.heap
        new_constraints == c.new
        i == IndexOf(h1.dicts[new_constraints], var)
    IN  IF i # 0
        THEN LET eq == h1.dicts[new_constraints][i].eq
                 ineq == h1.dicts[new_constraints][i].ineq
             IN  IF op = "="
                 THEN IF eq = None
                      THEN LET h2 == SetItem(h1, new_constraints, i, var, Some(val), ineq)
                           IN  IF In(h2, ineq, val)
                               THEN Returned(h2, None)
                               ELSE Returned(h2, Some(new_constraints))
                      ELSE IF eq # Some(val)
                           THEN Returned(h1, None)
                           ELSE Returned(h1, Some(new_constraints))
                 ELSE IF op = "!="
                 THEN IF eq # None
                      THEN IF eq = Some(val)
                           THEN Returned(h1, None)
                           ELSE Returned(h1, Some(new_constraints))
                      ELSE Returned(SetAdd(h1, h1.dicts[new_constraints][i].ineq, val),
                                    Some(new_constraints))
                 ELSE Returned(h1, Some(new_constraints))
        ELSE LET a == Fresh(DOMAIN h1.sets)
                 n == Len(h1.dicts[new_constraints]) + 1
             IN  IF op = "="
                 THEN Returned(SetItem(NewSet(h1, {}), new_constraints, n, var, Some(val), a),
                               Some(new_constraints))
                 ELSE Returned(SetItem(NewSet(h1, {val}), new_constraints, n, var, None, a),
                               Some(new_constraints))

\* The dict at address d as a value: every set address replaced by the set.
Value(h, d) ==
    [k \in 1..Len(h.dicts[d]) |->
        Entry(h.dicts[d][k].var, h.dicts[d][k].eq, h.sets[h.dicts[d][k].ineq])]

\* The sequence without the repetitions of its members.
RECURSIVE Distinct(_)
Distinct(seq) ==
    IF seq = <<>> THEN <<>>
    ELSE LET r == Distinct(SubSeq(seq, 1, Len(seq) - 1))
         IN  IF \E k \in 1..Len(r) : r[k] = seq[Len(seq)] THEN r
             ELSE Append(r, seq[Len(seq)])

Place(order, a) == CHOOSE k \in 1..Len(order) : order[k] = a

\* The objects the holders still refer to, the others being freed.  No
\* code looks at an address, so the objects kept are put at the addresses
\* 1, 2, ... in the order in which the holders refer to them.
Collect(h, holders) ==
    LET dicts == Distinct([i \in 1..Len(holders) |-> holders[i].ref])
        sets == Distinct(Flat([i \in 1..Len(dicts) |->
                    [k \in 1..Len(h.dicts[dicts[i]]) |-> h.dicts[dicts[i]][k].ineq]]))
    IN  [heap |->
            [dicts |-> [i \in 1..Len(dicts) |->
                          [k \in 1..Len(h.dicts[dicts[i]]) |->
                              Entry(h.dicts[dicts[i]][k].var, h.dicts[dicts[i]][k].eq,
                                    Place(sets, h.dicts[dicts[i]][k].ineq))]],
             sets |-> [j \in 1..Len(sets) |-> h.sets[sets[j]]]],
         live |-> [i \in 1..Len(holders) |->
                     [holders[i] EXCEPT !.ref = Place(dicts, @)]]]

\* The heap that holds the store as the one dict, at address 1.
Build(store) ==
    [dicts |-> <<[k \in 1..Len(store) |-> Entry(store[k].var, store[k].eq, k)]>>,
     sets |-> [k \in 1..Len(store) |-> store[k].ineq]]

\* The stores the first caller starts from: the empty store of flatten, and
\* every store on the one variable "a" that the type of the parameter allows.
RootStores ==
    {<<>>} \cup {<<Entry("a", eq, ineq)>> :
                    eq \in {None, Some("10")}, ineq \in SUBSET CallValues}

\* A store a caller holds: its dict, what the dict held when the caller got
\* it, and how deep the calls went in the sub-traversals finished below it.
Holder(ref, was, below) == [ref |-> ref, was |-> was, below |-> below]

StoreInit ==
    /\ \E root \in RootStores :
         /\ heap = Build(root)
         /\ live = <<Holder(1, root, 0)>>
    /\ call = None
    /\ nodes = <<>>
    /\ stack = <<>>
    /\ out = <<>>
    /\ mode = "created"
    /\ pulls = 0
    /\ visited = <<>>

\* What the caller hands over: its dict (a single-condition node), or
\* constraints.copy() (an OR node).
Passed(h, constraints, copied) ==
    IF copied THEN DictCopy(h, constraints) ELSE [heap |-> h, new |-> constraints]

\* The caller on top calls add_simple_constraint on its store, handing over
\* the dict or a copy of it; on success the traversal goes on below it with
\* the result.
Call(var, op, val, copied) ==
    /\ Len(live) < MaxStores
    /\ \E arg \in {Passed(heap, live[Len(live)].ref, copied)},
          store \in {Value(heap, live[Len(live)].ref)} :
        \E r \in {add_simple_constraint_on(arg.heap, arg.new, var, op, val)} :
          IF r.result = None
          THEN /\ \E kept \in {Collect(r.heap, live)} :
                    heap' = kept.heap /\ live' = kept.live
               /\ call' = Some([store |-> store, var |-> var, op |-> op, val |-> val,
                                result |-> None])
          ELSE \E new \in {Value(r.heap, r.result[1])} :
               /\ \E kept \in {Collect(r.heap, Append(live, Holder(r.result[1], new, 0)))} :
                    heap' = kept.heap /\ live' = kept.live
               /\ call' = Some([store |-> store, var |-> var, op |-> op, val |-> val,
                                result |-> Some(new)])
    /\ UNCHANGED vars

\* The sub-traversal on top is finished: its store is dropped and the
\* caller below goes on with its own.
Leave ==
    /\ Len(live) > 1
    /\ LET n == Len(live)
           rest == [SubSeq(live, 1, n - 1) EXCEPT
                      ![n - 1].below = IF @ > live[n].below THEN @ ELSE live[n].below + 1]
       IN  \E kept \in {Collect(heap, rest)} :
               heap' = kept.heap /\ live' = kept.live
    /\ call' = None
    /\ UNCHANGED vars

StoreNext ==
    \/ \E var \in Vars, op \in Ops, val \in CallValues, copied \in BOOLEAN :
         Call(var, op, val, copied)
    \/ Leave

StoreSpec == StoreInit /\ [][StoreNext]_<<vars, svars>>

(***************************************************************************)
(* C11.  add_simple_constraint and the table: for every store, variable,   *)
(* operator and value of a call, with an absent variable read as (no       *)
(* required value, no forbidden value): without a required value, var=val  *)
(* is a contradiction when val is forbidden and else requires val, and     *)
(* var!=val forbids val as well; with the required value V, var=val        *)
(* changes nothing when val is V and is a contradiction otherwise, and     *)
(* var!=val is a contradiction when val is V and changes nothing           *)
(* otherwise; a call that succeeds leaves the entries of the other         *)
(* variables as they were.                                                 *)
(***************************************************************************)
\* What the store holds for var.
Lookup(store, var) ==
    IF IndexOf(store, var) = 0 THEN [eq |-> None, ineq |-> {}]
    ELSE [eq |-> store[IndexOf(store, var)].eq, ineq |-> store[IndexOf(store, var)].ineq]

Others(store, var) == SelectSeq(store, LAMBDA e : e.var # var)

\* The row of the table: None for a contradiction, or what var has
\* afterwards.
TableRow(before, op, val) ==
    IF before.eq = None
    THEN IF op = "="
         THEN IF val \in before.ineq THEN None
              ELSE Some([eq |-> Some(val), ineq |-> before.ineq])
         ELSE Some([eq |-> None, ineq |-> before.ineq \cup {val}])
    ELSE IF op = "="
         THEN IF before.eq = Some(val) THEN Some(before) ELSE None
         ELSE IF before.eq = Some(val) THEN None ELSE Some(before)

C11_Table ==
    call # None =>
        LET c == call[1]
            before == Lookup(c.store, c.var)
            row == TableRow(before, c.op, c.val)
        IN  /\ c.result = add_simple_constraint(c.store, c.var, c.op, c.val)
            /\ c.result = None <=> row = None
            /\ c.result # None =>
                 /\ Lookup(c.result[1], c.var) = row[1]
                 /\ Others(c.result[1], c.var) = Others(c.store, c.var)
                 /\ (before.eq # None => c.result[1] = c.store)

\* A call var=val on a store of two variables that forbids val for var and
\* requires nothing for it has just been refused.
C11_Witness ==
    /\ call # None
    /\ Len(call[1].store) = 2
    /\ call[1].op = "="
    /\ Lookup(call[1].store, call[1].var).eq = None
    /\ call[1].val \in Lookup(call[1].store, call[1].var).ineq
    /\ call[1].result = None

(***************************************************************************)
(* C12.  add_simple_constraint never changes the store it is given: after  *)
(* any calls, refused or not, every store a caller holds has the items and *)
(* the forbidden sets it had when the caller got it, and shares no object  *)
(* with another; so the store a caller derives for a later branch is the   *)
(* one the table gives for its pre-branch store, with nothing of what the  *)
(* branches finished before it added.                                      *)
(***************************************************************************)
SetsOf(d) == {heap.dicts[d][k].ineq : k \in 1..Len(heap.dicts[d])}

C12_NoMutation ==
    /\ \A i \in 1..Len(live) : Value(heap, live[i].ref) = live[i].was
    /\ \A i, j \in 1..Len(live) :
         i # j => live[i].ref # live[j].ref /\ SetsOf(live[i].ref) \cap SetsOf(live[j].ref) = {}
    /\ call # None =>
         LET c == call[1]
             caller == IF c.result = None THEN live[Len(live)] ELSE live[Len(live) - 1]
         IN  /\ c.store = caller.was
             /\ c.result = add_simple_constraint(caller.was, c.var, c.op, c.val)

\* A caller whose earlier branch went two calls deep and is finished has
\* just derived the store of a later branch by forbidding one more value.
C12_Witness ==
    /\ call # None
    /\ call[1].result # None
    /\ call[1].op = "!="
    /\ live[Len(live) - 1].below >= 2
    /\ call[1].result[1] # call[1].store
    /\ Len(call[1].store) = Len(call[1].result[1])

(***************************************************************************)
(* C13.  Store invariant: in every store obtained from the empty store by  *)
(* successful calls of add_simple_constraint, no variable has a required   *)
(* value that is also in its forbidden set.                                *)
(***************************************************************************)
WellFormed(store) ==
    \A k \in 1..Len(store) : store[k].eq # None => store[k].eq[1] \notin store[k].ineq

C13_StoreInvariant ==
    live[1].was = <<>> =>
        /\ \A i \in 1..Len(live) : WellFormed(Value(heap, live[i].ref))
        /\ (call # None /\ call[1].result # None) => WellFormed(call[1].result[1])

\* Two calls deep from the empty store, a variable has a required value
\* and a forbidden one.
C13_Witness ==
    /\ live[1].was = <<>>
    /\ Len(live) = 3
    /\ \E k \in 1..Len(live[3].was) :
         live[3].was[k].eq # None /\ live[3].was[k].ineq # {}
====
